---------------------------- MODULE Spec2Model ----------------------------
(***************************************************************************)
(* Model of the gatekeeper of SuperDARNCanada/data_flow:                   *)
(* src/mirror/gatekeeper_globus.py (main and the Gatekeeper methods it     *)
(* calls).  One run of main() is a sequence of steps (the "Step n)"        *)
(* comments of the source); each step is one action.  The archive (mirror) *)
(* and the holding directory persist between runs, everything else is      *)
(* rebuilt by every run.                                                   *)
(*                                                                         *)
(* A data file name is the pair <<yyyymm, tail>>: filename[0:6] and the    *)
(* rest of the name.  A file content is a token of Bytes; what sha1sum,    *)
(* bunzip2 -t, getsize and pydarnio make of it are the operators Sha1,     *)
(* BunzipTest, FileSize and DmapRaises.                                    *)
(***************************************************************************)
EXTENDS Naturals, Sequences, FiniteSets, TLC

\* ------------------------------------------------------------ bounds
\* Number of successive runs of main() that are explored.
MaxRuns == 2
\* Number of faults of the environment (a transfer task that fails or outlasts its
\* wait, a file that cannot be read, a directory that cannot be made) that the
\* runs meet and survive.
MaxFaults == 1

\* ------------------------------------------------------------ universe
N1 == <<"202312", "pgr">>
N2 == <<"202312", "sas">>
N3 == <<"202401", "sas">>
\* The names in lexicographic order (files_to_upload.sort(), sorted(...)).
SortedNames == <<N1, N2, N3>>
Names == {SortedNames[i] : i \in DOMAIN SortedNames}
SortedGroups == <<"202312", "202401">>
Groups == {SortedGroups[i] : i \in DOMAIN SortedGroups}

\* gk.cur_year, gk.cur_month (datetime.now() in Gatekeeper.__init__) as yyyymm.
cur_yearmonth == "202401"

Absent == "absent"
\* A file that does not exist (no line of a manifest or of the ledger has 4 fields).
NoFile == << <<"no", "such", "file", "">> >>
Bytes == {"valid1", "valid2", "bz2bad", "empty14", "zero", "tiny", "baddmap"}

\* filename[0:6]
YearMonth(name) == name[1]

\* sha1sum of a content: a digest that names the content it was taken of.
Sha1(bytes) == <<"sha1", bytes>>
NoHash == <<"sha1", "unset">>

\* Return code of `bunzip2 -t` on a readable file: 2 for a corrupt container.  A
\* file shorter than the 14 bytes of an empty bzip2 stream is not a container
\* (bunzip2: "file ends unexpectedly", "data integrity (CRC) error").
BunzipTest(bytes) == IF bytes \in {"bz2bad", "zero", "tiny"} THEN 2 ELSE 0

\* os.path.getsize of the file.
FileSize(bytes) ==
    CASE bytes = "zero"    -> 0
      [] bytes = "tiny"    -> 7
      [] bytes = "empty14" -> 14
      [] OTHER             -> 100

\* pydarnio.SDarnRead(...).read_rawacf() raises on the decompressed content.
DmapRaises(bytes) == bytes = "baddmap"

\* sorted(list(S)) for a set of names or of groups.
SortNames(S) == SelectSeq(SortedNames, LAMBDA n : n \in S)
SortGroups(S) == SelectSeq(SortedGroups, LAMBDA g : g \in S)

Range(s) == {s[i] : i \in DOMAIN s}
Restrict(f, S) == [x \in S |-> f[x]]

\* `token in line` for a text line: the line is the sequence of its fields and a
\* token (a hash, a file name) occurs in it when it is one of them.
InLine(token, line) == \E i \in DOMAIN line : line[i] = token

VARIABLES
    \* --- the archive (mirror)
    mirror_hashes,      \* per group: the lines <<hash, name>> of <yyyymm>.hashes, or NoFile
    mirror_master,      \* .config/master.hashes: the lines <<digest, group>>
    mirror_failed_txt,  \* .config/all_failed.txt: lines <<hash, name, reason>>
    mirror_data,        \* data tree: name -> content or Absent
    mirror_failed_dir,  \* names uploaded to the failed directory of the mirror
    blocklist,          \* .config/blocklist/*.txt: the set of lines
    mirror_dirs,        \* groups whose <type>/<yyyy>/<mm>/ directory exists
    \* --- the local machine
    holding,            \* top level of the holding directory: name -> content or Absent
    blocked_sub,        \* <holding>/blocked/<date>/
    nomatch_sub,        \* <holding>/nomatch/<date>/
    failed_sub,         \* <holding>/failed/<date>/
    unzipped,           \* decompressed siblings left in the holding directory
    wd_hashes,          \* working dir: per group the fetched <yyyymm>.hashes, or NoFile
    wd_failed,          \* working dir: all_failed.txt, or NoFile
    wd_master,          \* working dir: master.hashes, or NoFile
    elements,           \* the module-level name `elements` main reads at line 1250:
                        \* what the program that imports the module has bound it to
    \* --- one run of main()
    runs,               \* number of runs started
    faults,             \* faults of the environment met so far, fatal ones included
    task_successful_transfers,  \* what the service reports of the batch task
    pc,                 \* the step main is at; "idle", "done", "exit", "crash" between runs
    exit_msg,           \* argument of sys.exit, or the exception of a crash
    scanned,            \* files_to_upload as scanned in step 3
    files_to_upload_dict,
    blocked_data,       \* lines read from the fetched blocklist
    ymTodo,             \* groups the loop of step 6 still has to visit
    yearmonth_dict,     \* keys of yearmonth_dict (a timed-out group is popped)
    new_hash_file,
    non_matching_files,
    failed_files,       \* name -> <<hash, reason>>
    vTodo,              \* files the loop of step 7 still has to visit
    last_task,          \* gk.last_transfer_result: <<label, status>>
    batch,              \* items of the batch transfer submitted in step 9
    succeeded_files,    \* step 10: names the transfer service reports as transferred
    yearmonth_hash_dict, \* step 10: per group the lines to append to its manifest
    email_flag, email_subject, emails,
    \* --- history
    class,              \* name -> classes the run has given it
    checks,             \* name -> the checks step 7 ran on it: <<check, result>> in order
    uploads,            \* step 11: the uploads of the run, <<label, group, status>> in order
    requests,           \* steps 8 and 9: the batch transfers the run has submitted,
                        \* <<label, items, timeout of the first wait>> in order
    waits,              \* <<operation, label of the task awaited>> for every wait and
                        \* every success test the run has made
    snap,               \* archive, holding directory and tasks of the transfer service
                        \* when the run started
    \* --- a method of the class called on its own
    retries, errormsg,  \* check_for_file_existence: its local variables
    ls_answers,         \* the answers of the endpoint to its listings, in order
    returned,           \* what the call has come to
    um_pc, um_todo      \* update_master_hashes: where it is, the data types left

archive == <<mirror_hashes, mirror_master, mirror_failed_txt, mirror_data,
             mirror_failed_dir, blocklist, mirror_dirs>>
local == <<holding, blocked_sub, nomatch_sub, failed_sub, unzipped, wd_hashes,
           wd_failed, wd_master, elements>>
run == <<runs, faults, task_successful_transfers, pc, exit_msg, scanned, files_to_upload_dict, blocked_data, ymTodo,
         yearmonth_dict, new_hash_file, non_matching_files, failed_files, vTodo,
         last_task, batch, succeeded_files, yearmonth_hash_dict, email_flag,
         email_subject, emails>>
calls == <<retries, errormsg, ls_answers, returned, um_pc, um_todo>>
vars == <<archive, local, run, class, checks, uploads, requests, waits, snap, calls>>


\* ------------------------------------------------------------ initial states
\* Contents a name may have in the holding directory when the first run starts.
HoldingChoices(n) ==
    CASE n = N1 -> {"valid1", "bz2bad"}
      [] n = N2 -> {Absent, "valid1", "baddmap"}
      [] OTHER  -> {Absent, "valid1", "tiny", "empty14"}

\* Manifests a group may have on the archive when the first run starts: none, an
\* empty one, one that records a name of the group with the hash of "valid1" or of
\* "valid2".  File names are unique within a manifest.
ManifestChoices(g) ==
    CASE g = "202312" -> {NoFile, <<>>, <<<<Sha1("valid1"), N1>>>>, <<<<Sha1("valid2"), N1>>>>}
      [] OTHER        -> {NoFile, <<>>}

\* sha1sum of a manifest file (an entry of master.hashes).
Digest(lines) == <<"sha1", lines>>

\* master.hashes written from the dictionary hashes (lines 1667-1669): one line
\* <<digest, key>> per key, in the sorted order of the keys.
MasterLines(hashes) ==
    [i \in 1..Cardinality(DOMAIN hashes) |->
        <<hashes[SortGroups(DOMAIN hashes)[i]], SortGroups(DOMAIN hashes)[i]>>]

SeedLine == <<Sha1("bz2bad"), N1, <<"reason", "Failed BZ2 integrity test">>>>
\* A line of the ledger for the same name with another hash.
OtherLine == <<Sha1("valid2"), N1, <<"reason", "Failed BZ2 integrity test">>>>

NoTask == <<"none", "none">>
NoSnap == <<>>
\* The value {} a scanned file has in files_to_upload_dict before step 5.
EmptyMeta == [hash |-> NoHash, yearmonth |-> "", year |-> "", month |-> "",
              day |-> "", type |-> ""]
\* A binding of the name `elements` (the example of parse_data_filename's docstring);
\* <<>> stands for the name being unbound.
ExampleElements == <<"2020", "08", "04", "22", "00", "01", "mcm", "rawacf">>

\* The data tree of an archive whose manifests are hashes: a file is there with
\* the content its manifest records.
ArchiveData(hashes) ==
    [n \in Names |->
        IF /\ hashes[YearMonth(n)] # NoFile
           /\ \E i \in DOMAIN hashes[YearMonth(n)] : hashes[YearMonth(n)][i][2] = n
        THEN hashes[YearMonth(n)][1][1][2]
        ELSE Absent]

\* No method is being called on its own.
NotCalled == ""
NoCall ==
    /\ retries = 0
    /\ errormsg = "None"
    /\ ls_answers = <<>>
    /\ returned = NotCalled
    /\ um_pc = NotCalled
    /\ um_todo = <<>>

Init ==
    /\ mirror_hashes \in [Groups -> UNION {ManifestChoices(g) : g \in Groups}]
    /\ \A g \in Groups : mirror_hashes[g] \in ManifestChoices(g)
    /\ mirror_master = MasterLines([g \in {x \in Groups : mirror_hashes[x] # NoFile}
                                       |-> Digest(mirror_hashes[g])])
    /\ mirror_failed_txt \in {<<SeedLine>>, <<OtherLine>>, <<>>}
    /\ mirror_data = ArchiveData(mirror_hashes)
    /\ mirror_failed_dir = {}
    /\ mirror_dirs = {g \in Groups : mirror_hashes[g] # NoFile}
    /\ blocklist \in {{}, {<<N2>>}}
    /\ holding \in [Names -> Bytes \cup {Absent}]
    /\ \A n \in Names : holding[n] \in HoldingChoices(n)
    \* combinations that only repeat another one are left out
    /\ blocklist # {} => holding[N2] = "valid1"
    /\ holding[N1] = "bz2bad" => mirror_hashes["202312"] \in {NoFile, <<>>}
    /\ holding[N3] \in {Absent, "tiny"} => mirror_hashes["202401"] = <<>>
    /\ holding[N3] = "empty14" => mirror_hashes["202401"] = NoFile
    /\ holding[N1] # "bz2bad" => mirror_failed_txt = <<SeedLine>>
    /\ blocked_sub = {} /\ nomatch_sub = {} /\ failed_sub = {} /\ unzipped = {}
    /\ wd_hashes = [g \in Groups |-> NoFile]
    /\ wd_failed = NoFile
    /\ wd_master = NoFile
    /\ elements \in {<<>>, ExampleElements}
    /\ runs = 0
    /\ faults = 0
    /\ task_successful_transfers = {}
    /\ pc = "idle"
    /\ exit_msg = ""
    /\ scanned = {}
    /\ files_to_upload_dict = <<>>
    /\ blocked_data = {}
    /\ ymTodo = <<>>
    /\ yearmonth_dict = {}
    /\ new_hash_file = FALSE
    /\ non_matching_files = <<>>
    /\ failed_files = <<>>
    /\ vTodo = <<>>
    /\ last_task = NoTask
    /\ batch = {}
    /\ succeeded_files = {}
    /\ yearmonth_hash_dict = <<>>
    /\ email_flag = 0
    /\ email_subject = {}
    /\ emails = {}
    /\ class = [n \in Names |-> {}]
    /\ checks = [n \in Names |-> <<>>]
    /\ uploads = <<>>
    /\ requests = <<>>
    /\ waits = {}
    /\ NoCall
    /\ snap = NoSnap


\* ------------------------------------------------------------ ways a step ends
\* gk.email_subject += msg; gk.send_email(); sys.exit(msg)
Abort(msg) ==
    /\ pc' = "exit"
    /\ exit_msg' = msg
    /\ email_subject' = email_subject \cup {msg}
    /\ emails' = emails \cup {email_subject \cup {msg}}

\* sys.exit(msg) with no notification.
Quit(msg) ==
    /\ pc' = "exit"
    /\ exit_msg' = msg
    /\ UNCHANGED <<email_subject, emails>>

\* An exception nothing catches: the traceback ends the process.
Crash(exception) ==
    /\ pc' = "crash"
    /\ exit_msg' = exception
    /\ UNCHANGED <<email_subject, emails>>

\* The environment deviates (dev) only while there are faults left to meet.
Env(dev) ==
    /\ dev => faults < MaxFaults
    /\ faults' = IF dev THEN faults + 1 ELSE faults

\* A fault that ends the run at once.
Fatal == faults' = faults + 1

Goto(step) ==
    /\ pc' = step
    /\ UNCHANGED <<exit_msg, email_subject, emails>>

Terminal == {"idle", "done", "exit", "crash"}

Keys == DOMAIN files_to_upload_dict
Present == {n \in Names : holding[n] # Absent}
\* A pop that removes nothing.
PopNothing(dict, S) == dict

Pop(dict, S) == Restrict(dict, DOMAIN dict \ S)
Classify(S, label) == [n \in Names |-> IF n \in S THEN class[n] \cup {label} ELSE class[n]]

\* Outcome of waiting for a submitted task: it ended well, it ended badly, or the
\* wait timed out with the task still active (wait_for_last_task returns False).
TaskOutcomes == {"SUCCEEDED", "FAILED", "ACTIVE"}

\* ------------------------------------------------------------ a run starts
\* self.mirror_uuid (line 182) and another endpoint.
mirror_uuid == "mirror"
other_uuid == "other"

\* What transfer_client.task_list() may answer when the Gatekeeper is constructed:
\* the tasks of the service, each with its status and its destination endpoint.
TaskLists ==
    {<<>>,
     <<[status |-> "ACTIVE", destination_endpoint_id |-> other_uuid]>>,
     <<[status |-> "SUCCEEDED", destination_endpoint_id |-> mirror_uuid],
       [status |-> "ACTIVE", destination_endpoint_id |-> mirror_uuid]>>}

\* A test that finds no task.
check_for_no_transfer(task_list, uuid) == FALSE

\* check_for_transfer_to_endpoint (lines 266-277): a task of the list is ACTIVE
\* and its destination is the endpoint uuid.
check_for_transfer_to_endpoint(task_list, uuid) ==
    \E i \in DOMAIN task_list :
        /\ task_list[i].status = "ACTIVE"
        /\ task_list[i].destination_endpoint_id = uuid

\* A new process: Gatekeeper.__init__ and step 1.  An active transfer to the
\* mirror ends the run at once.
StartRun ==
    /\ pc \in Terminal
    /\ runs < MaxRuns
    /\ runs' = runs + 1
    /\ task_successful_transfers' = {}
    /\ scanned' = {}
    /\ files_to_upload_dict' = <<>>
    /\ blocked_data' = {}
    /\ ymTodo' = <<>>
    /\ yearmonth_dict' = {}
    /\ new_hash_file' = FALSE
    /\ non_matching_files' = <<>>
    /\ failed_files' = <<>>
    /\ vTodo' = <<>>
    /\ last_task' = NoTask
    /\ batch' = {}
    /\ succeeded_files' = {}
    /\ yearmonth_hash_dict' = <<>>
    /\ email_flag' = 0
    /\ class' = [n \in Names |-> {}]
    /\ checks' = [n \in Names |-> <<>>]
    /\ uploads' = <<>>
    /\ requests' = <<>>
    /\ waits' = {}
    /\ \E task_list \in TaskLists :
          /\ snap' = <<mirror_hashes, mirror_master, mirror_failed_txt, mirror_data, holding,
                       task_list>>
          /\ IF check_for_transfer_to_endpoint(task_list, mirror_uuid)
             THEN /\ Fatal
                  /\ pc' = "exit"
                  /\ exit_msg' = "Error: current active transfer to mirror"
                  /\ email_subject' = {"Error: current active transfer to mirror"}
                  /\ emails' = {{"Error: current active transfer to mirror"}}
             ELSE /\ UNCHANGED faults
                  /\ pc' = "step2"
                  /\ exit_msg' = ""
                  /\ email_subject' = {}
                  /\ emails' = {}
    /\ UNCHANGED <<archive, local, calls>>

\* Step 2: the working directory is cleared, the holding directory and the mirror
\* root must exist.
Step2 ==
    /\ pc = "step2"
    /\ UNCHANGED <<checks, uploads, requests, calls, waits>>
    /\ wd_hashes' = [g \in Groups |-> NoFile]
    /\ wd_failed' = NoFile
    /\ wd_master' = NoFile
    /\ \E outcome \in {"ok", "no_working_dir", "no_holding_dir", "no_mirror_root",
                       "existence_check_failed"} :
          CASE outcome = "ok" -> Goto("step3") /\ UNCHANGED faults
            [] outcome = "no_working_dir" -> Abort("Directory DNE") /\ Fatal
            [] outcome = "no_holding_dir" -> Abort("Holding dir DNE") /\ Fatal
            [] outcome = "no_mirror_root" -> Abort("Mirror root dir DNE") /\ Fatal
            [] OTHER -> Abort("Check for file existence failed") /\ Fatal
    /\ UNCHANGED <<archive, holding, blocked_sub, nomatch_sub, failed_sub, unzipped,
                   elements, runs, task_successful_transfers, scanned, files_to_upload_dict, blocked_data, ymTodo,
                   yearmonth_dict, new_hash_file, non_matching_files, failed_files,
                   vTodo, last_task, batch, succeeded_files, yearmonth_hash_dict, email_flag, class, snap>>

\* Step 3, first part: the holding directory is scanned and master.hashes fetched.
Step3Scan ==
    /\ pc = "step3"
    /\ UNCHANGED <<checks, uploads, requests, calls>>
    /\ scanned' = Present
    /\ files_to_upload_dict' = [n \in Present |-> EmptyMeta]
    /\ IF Present = {}
       THEN /\ Quit("No files to upload. Exiting.")
            /\ UNCHANGED <<last_task, wd_master, faults>>
       ELSE \E status \in TaskOutcomes :
               /\ IF status = "ACTIVE" THEN Fatal ELSE Env(status = "FAILED")
               /\ last_task' = <<"get_master_hashes", status>>
               /\ wd_master' = IF status = "SUCCEEDED" THEN mirror_master ELSE wd_master
               /\ IF status = "ACTIVE"
                  THEN Abort("get_master_hashes timeout")
                  ELSE Goto("step3failed")
    /\ UNCHANGED <<archive, holding, blocked_sub, nomatch_sub, failed_sub, unzipped,
                   wd_hashes, wd_failed, elements, runs, task_successful_transfers, blocked_data, ymTodo,
                   yearmonth_dict, new_hash_file, non_matching_files, failed_files, vTodo,
                   batch, succeeded_files, yearmonth_hash_dict, email_flag, class, snap>>
    \* the wait of line 1149
    /\ waits' = IF Present = {} THEN waits
              ELSE waits \cup {<<"get_master_hashes", last_task'[1]>>}

\* Step 3, second part: all_failed.txt is fetched into the working directory.
Step3GetFailed ==
    /\ pc = "step3failed"
    /\ UNCHANGED <<checks, uploads, requests, calls>>
    /\ \E status \in TaskOutcomes :
          /\ IF status = "ACTIVE" THEN Fatal ELSE Env(status = "FAILED")
          /\ last_task' = <<"get_failed", status>>
          /\ wd_failed' = IF status = "SUCCEEDED" THEN mirror_failed_txt ELSE NoFile
          /\ IF status = "ACTIVE"
             THEN Abort("get_failed timeout")
             ELSE Goto("step3blocklist")
    /\ UNCHANGED <<archive, holding, blocked_sub, nomatch_sub, failed_sub, unzipped,
                   wd_hashes, wd_master, elements, runs, task_successful_transfers, scanned, files_to_upload_dict,
                   blocked_data, ymTodo, yearmonth_dict, new_hash_file,
                   non_matching_files, failed_files, vTodo, batch, succeeded_files, yearmonth_hash_dict,
                   email_flag, class, snap>>
    \* the wait of line 1159
    /\ waits' = waits \cup {<<"get_failed", last_task'[1]>>}

\* Step 3, third part: the blocklist directory is fetched.
Step3GetBlocklist ==
    /\ pc = "step3blocklist"
    /\ UNCHANGED <<checks, uploads, requests, calls>>
    /\ \E status \in TaskOutcomes :
          /\ IF status = "ACTIVE" THEN Fatal ELSE Env(status = "FAILED")
          /\ last_task' = <<"get_blocklist", status>>
          /\ IF status = "ACTIVE"
             THEN Abort("get_blocklist timeout")
             ELSE Goto("step4")
    /\ UNCHANGED <<archive, local, runs, task_successful_transfers, scanned, files_to_upload_dict, blocked_data,
                   ymTodo, yearmonth_dict, new_hash_file, non_matching_files,
                   failed_files, vTodo, batch, succeeded_files, yearmonth_hash_dict, email_flag, class, snap>>
    \* the wait of line 1169
    /\ waits' = waits \cup {<<"get_blocklist", last_task'[1]>>}

\* A test that finds no name in the blocklist.
IsBlockedNever(data_file, lines) == FALSE

\* A data file is blocked when its name occurs in a line of the blocklist.
IsBlocked(data_file, lines) == \E blocked_file \in lines : InLine(data_file, blocked_file)

\* Step 4: blocked files leave the upload set and move to <holding>/blocked/<date>/.
\* The fetched directory is listed first; a fetch that ended badly left none.
Step4 ==
    /\ pc = "step4"
    /\ UNCHANGED <<checks, uploads, requests, calls, waits>>
    /\ UNCHANGED faults
    /\ IF last_task[2] = "FAILED"
       THEN /\ Crash("FileNotFoundError: blocklist")
            /\ UNCHANGED <<blocked_data, files_to_upload_dict, holding, blocked_sub,
                           email_flag, class>>
       ELSE LET blocked_files_to_remove == {f \in Keys : IsBlocked(f, blocklist)}
            IN  /\ blocked_data' = blocklist
                /\ files_to_upload_dict' = Pop(files_to_upload_dict, blocked_files_to_remove)
                /\ holding' = [n \in Names |->
                                 IF n \in blocked_files_to_remove THEN Absent ELSE holding[n]]
                /\ blocked_sub' = blocked_sub \cup blocked_files_to_remove
                /\ class' = Classify(blocked_files_to_remove, "Blocked")
                /\ email_flag' = IF blocked_files_to_remove # {} THEN 1 ELSE email_flag
                /\ pc' = "step5"
                /\ email_subject' = IF blocked_files_to_remove # {}
                                    THEN email_subject \cup {"Blocked files"}
                                    ELSE email_subject
                /\ UNCHANGED <<exit_msg, emails>>
    /\ UNCHANGED <<archive, nomatch_sub, failed_sub, unzipped, wd_hashes, wd_failed, wd_master,
                   elements, runs, task_successful_transfers, scanned, ymTodo, yearmonth_dict, new_hash_file,
                   non_matching_files, failed_files, vTodo, last_task, batch,
                   succeeded_files, yearmonth_hash_dict, snap>>

\* len(filename.split('.')) of parse_data_filename: 7 with a channel element.
ElementCount(name) == IF name[2] = "sas.a" THEN 7 ELSE 6

\* Step 5: the holding directory is hashed and the metadata of every hashed file is
\* recorded.  Line 1249 unpacks the result of parse_data_filename into 8 names; line
\* 1250 then reads `elements`, a name bound neither in main nor in the module: it
\* resolves in the module's globals when the line runs, and raises NameError unless
\* the program that imported the module and called main() has bound it.
Step5 ==
    /\ pc = "step5"
    /\ UNCHANGED <<checks, uploads, requests, calls, waits>>
    /\ UNCHANGED faults
    /\ IF Present = {}
       THEN /\ Abort("Error hashing files, probably no files passed")
            /\ UNCHANGED <<files_to_upload_dict, ymTodo, yearmonth_dict>>
       ELSE IF \E f \in Present : ElementCount(f) = 7
       THEN /\ Crash("ValueError: too many values to unpack")
            /\ UNCHANGED <<files_to_upload_dict, ymTodo, yearmonth_dict>>
       ELSE IF elements = <<>>
       THEN /\ Crash("NameError: name 'elements' is not defined")
            /\ UNCHANGED <<files_to_upload_dict, ymTodo, yearmonth_dict>>
       ELSE IF ~(Present \subseteq Keys)
       THEN /\ Crash("KeyError")
            /\ UNCHANGED <<files_to_upload_dict, ymTodo, yearmonth_dict>>
       ELSE /\ files_to_upload_dict' =
                 [f \in Keys |->
                    IF f \in Present
                    THEN [hash |-> Sha1(holding[f]), yearmonth |-> YearMonth(f),
                          year |-> elements[1], month |-> elements[2],
                          day |-> elements[3], type |-> elements[8]]
                    ELSE files_to_upload_dict[f]]
            /\ ymTodo' = SortGroups({YearMonth(f) : f \in Keys})
            /\ yearmonth_dict' = {YearMonth(f) : f \in Keys}
            /\ Goto("step6")
    /\ UNCHANGED <<archive, local, runs, task_successful_transfers, scanned, blocked_data,
                   new_hash_file, non_matching_files, failed_files, vTodo, last_task,
                   batch, succeeded_files, yearmonth_hash_dict, email_flag, class, snap>>

\* A comparison that reports OK for every file it can read.
Sha1sumCheckAllOK(hashfile, dir) ==
    [i \in DOMAIN hashfile |->
        <<hashfile[i][2],
          IF dir[hashfile[i][2]] = Absent THEN "FAILED open or read" ELSE "OK">>]

\* A comparison that never reports OK.
Sha1sumCheckNeverOK(hashfile, dir) ==
    [i \in DOMAIN hashfile |->
        <<hashfile[i][2],
          IF dir[hashfile[i][2]] = Absent THEN "FAILED open or read" ELSE "FAILED">>]

\* `sha1sum -c <yyyymm>.hashes` run in the holding directory: one result per line
\* of the manifest, in the order of its lines.
Sha1sumCheck(hashfile, dir) ==
    [i \in DOMAIN hashfile |->
        <<hashfile[i][2],
          IF dir[hashfile[i][2]] = Absent THEN "FAILED open or read"
          ELSE IF Sha1(dir[hashfile[i][2]]) = hashfile[i][1] THEN "OK"
          ELSE "FAILED">>]

\* The loop of lines 1299-1320 without the pop of line 1307.
RECURSIVE ReconcileKeepsMismatch(_, _, _)
ReconcileKeepsMismatch(results, i, st) ==
    IF i > Len(results) \/ st.keyerror THEN st
    ELSE LET hashed_file == results[i][1]
             sha1sum_result == results[i][2]
         IN  CASE sha1sum_result = "FAILED open or read" ->
                    ReconcileKeepsMismatch(results, i + 1, st)
               [] sha1sum_result = "FAILED" ->
                    ReconcileKeepsMismatch(results, i + 1,
                        [st EXCEPT !.nomatch = Append(@, hashed_file)])
               [] OTHER ->
                    IF hashed_file \notin st.keys
                    THEN [st EXCEPT !.keyerror = TRUE]
                    ELSE ReconcileKeepsMismatch(results, i + 1,
                        [st EXCEPT !.keys = @ \ {hashed_file},
                                   !.removed = @ \cup {hashed_file}])

\* The loop of lines 1299-1320 over the results from the i-th on.  st is the record
\* of what the loop has done so far: the names popped from files_to_upload_dict,
\* non_matching_files, the files removed from the holding directory, and whether
\* a pop raised KeyError.
RECURSIVE Reconcile(_, _, _)
Reconcile(results, i, st) ==
    IF i > Len(results) \/ st.keyerror THEN st
    ELSE LET hashed_file == results[i][1]
             sha1sum_result == results[i][2]
         IN  CASE sha1sum_result = "FAILED open or read" ->
                    Reconcile(results, i + 1, st)
               [] sha1sum_result = "FAILED" ->
                    Reconcile(results, i + 1,
                        [st EXCEPT !.nomatch = Append(@, hashed_file),
                                   !.keyerror = hashed_file \notin st.keys,
                                   !.keys = @ \ {hashed_file}])
               [] OTHER ->
                    IF hashed_file \notin st.keys
                    THEN [st EXCEPT !.keyerror = TRUE]
                    ELSE Reconcile(results, i + 1,
                        [st EXCEPT !.keys = @ \ {hashed_file},
                                   !.removed = @ \cup {hashed_file}])

\* A test that takes every month for the current one.
IsAnyMonth(ym) == TRUE

\* gk.cur_month == int(ym[4:6]) and gk.cur_year == int(ym[0:4]) (line 1325)
IsCurrentMonth(ym) == ym = cur_yearmonth

\* A step 6 that ends the run whatever the group's outcome.
AbortAfterStep6(todo, keys) ==
    /\ Abort("Get hashes didn't complete")
    /\ UNCHANGED <<ymTodo, vTodo>>

\* Where main goes after the last group of step 6: the loop of step 7 visits the
\* sorted keys of files_to_upload_dict, and step 8 follows when there is none.
AfterStep6(todo, keys) ==
    /\ ymTodo' = todo
    /\ IF todo # <<>> THEN /\ Goto("step6")
                           /\ vTodo' = vTodo
       ELSE IF keys # {} THEN /\ Goto("step7")
                              /\ vTodo' = SortNames(keys)
       ELSE /\ Goto("step8")
            /\ vTodo' = <<>>

\* Step 6, one iteration of the loop over the groups (lines 1275-1335).
Step6 ==
    /\ pc = "step6"
    /\ UNCHANGED <<checks, uploads, requests, calls>>
    /\ ymTodo # <<>>
    /\ LET ym == Head(ymTodo)
           group == {f \in Keys : YearMonth(f) = ym}
       IN \E listing \in {"answered", "failed"} :
          IF listing = "failed"
          THEN \* check_for_file_existence ran out of retries
               /\ Abort("Check for file existence failed")
               /\ Fatal
               /\ UNCHANGED <<files_to_upload_dict, yearmonth_dict, ymTodo, vTodo,
                              non_matching_files, holding, wd_hashes, last_task,
                              new_hash_file, mirror_dirs, class>>
          ELSE IF mirror_hashes[ym] # NoFile
          THEN \E status \in TaskOutcomes :
               /\ Env(status # "SUCCEEDED")
               /\ last_task' = <<"get_hashes", status>>
               /\ UNCHANGED <<new_hash_file, mirror_dirs>>
               /\ CASE status = "ACTIVE" ->
                        /\ files_to_upload_dict' = Pop(files_to_upload_dict, group)
                        /\ yearmonth_dict' = yearmonth_dict \ {ym}
                        /\ class' = Classify(group, "Dropped")
                        /\ AfterStep6(Tail(ymTodo), Keys \ group)
                        /\ UNCHANGED <<non_matching_files, holding, wd_hashes>>
                    [] status = "FAILED" ->
                        \* no file arrived: sha1sum -c prints no result
                        /\ AfterStep6(Tail(ymTodo), Keys)
                        /\ UNCHANGED <<files_to_upload_dict, yearmonth_dict, class,
                                       non_matching_files, holding, wd_hashes>>
                    [] OTHER ->
                        LET st == Reconcile(Sha1sumCheck(mirror_hashes[ym], holding), 1,
                                            [keys |-> Keys, nomatch |-> non_matching_files,
                                             removed |-> {}, keyerror |-> FALSE])
                            mismatched == Range(st.nomatch) \ Range(non_matching_files)
                        IN  /\ wd_hashes' = [wd_hashes EXCEPT ![ym] = mirror_hashes[ym]]
                            /\ files_to_upload_dict' = Restrict(files_to_upload_dict, st.keys)
                            /\ non_matching_files' = st.nomatch
                            /\ holding' = [n \in Names |->
                                             IF n \in st.removed THEN Absent ELSE holding[n]]
                            /\ class' = [n \in Names |->
                                           IF n \in mismatched
                                           THEN class[n] \cup {"HashMismatch"}
                                           ELSE IF n \in st.removed
                                           THEN class[n] \cup {"AlreadyOnArchive"}
                                           ELSE class[n]]
                            /\ UNCHANGED yearmonth_dict
                            /\ IF st.keyerror
                               THEN /\ Crash("KeyError")
                                    /\ UNCHANGED <<ymTodo, vTodo>>
                               ELSE AfterStep6(Tail(ymTodo), st.keys)
          ELSE IF IsCurrentMonth(ym)
          THEN \* create_new_data_dir; its result is not looked at
               /\ \E created \in BOOLEAN :
                     /\ Env(~created)
                     /\ mirror_dirs' = IF created THEN mirror_dirs \cup {ym} ELSE mirror_dirs
               /\ new_hash_file' = TRUE
               /\ AfterStep6(Tail(ymTodo), Keys)
               /\ UNCHANGED <<files_to_upload_dict, yearmonth_dict, non_matching_files,
                              holding, wd_hashes, last_task, class>>
          ELSE /\ Abort("Hash file not found")
               /\ UNCHANGED faults
               /\ UNCHANGED <<files_to_upload_dict, yearmonth_dict, ymTodo, vTodo,
                              non_matching_files, holding, wd_hashes, last_task,
                              new_hash_file, mirror_dirs, class>>
    /\ UNCHANGED <<mirror_hashes, mirror_master, mirror_failed_txt, mirror_data,
                   mirror_failed_dir, blocklist, task_successful_transfers,
                   blocked_sub, nomatch_sub, failed_sub, unzipped, wd_failed, wd_master, elements,
                   runs, scanned, blocked_data, failed_files, batch, succeeded_files,
                   yearmonth_hash_dict, email_flag, snap>>
    \* the wait of line 1281
    /\ waits' = IF last_task'[1] = "get_hashes"
              THEN waits \cup {<<"get_hashes", last_task'[1]>>} ELSE waits

\* What the environment has done to a file between its hashing and its checks.
FileFates == {"present", "unreadable", "vanished"}
\* Return codes of bzcat on a file that passed `bunzip2 -t`.
BzcatCodes == {0, 1, 2}

\* The text pydarnio's exception leaves in failed_files.
DmapReason == "Error reading DMap records"

\* A size test that lets a file of exactly 14 bytes through.
TooSmallStrict(filesize) == filesize < 14

\* The size tests of lines 1375 and 1380: both record the same reason.
TooSmall(filesize) == (filesize = 14 \/ filesize = 0) \/ filesize < 14

\* Step 7, one iteration of the loop over the files (lines 1348-1429).
Step7 ==
    /\ pc = "step7"
    /\ UNCHANGED <<uploads, requests, calls, waits>>
    /\ vTodo # <<>>
    /\ LET data_file == Head(vTodo)
           data_file_hash == files_to_upload_dict[data_file].hash
           bytes == holding[data_file]
           Ran(results) == checks' = [checks EXCEPT ![data_file] = results]
           Continue == /\ vTodo' = Tail(vTodo)
                       /\ Goto(IF Tail(vTodo) = <<>> THEN "step8" ELSE "step7")
           Drop == /\ files_to_upload_dict' = Pop(files_to_upload_dict, {data_file})
                   /\ class' = Classify({data_file}, "Dropped")
                   /\ UNCHANGED failed_files
           Fail(reason) ==
                   /\ files_to_upload_dict' = Pop(files_to_upload_dict, {data_file})
                   /\ failed_files' =
                         [n \in DOMAIN failed_files \cup {data_file} |->
                             IF n = data_file THEN <<data_file_hash, <<"reason", reason>>>>
                             ELSE failed_files[n]]
                   /\ class' = Classify({data_file}, "IntegrityFailed")
           Pass == /\ class' = Classify({data_file}, "Eligible")
                   /\ UNCHANGED <<files_to_upload_dict, failed_files>>
       IN \E fate \in FileFates :
          CASE fate = "vanished" ->
                 \* bunzip2 returns 1; getsize (line 1360) raises before the code is read
                 /\ holding' = [holding EXCEPT ![data_file] = Absent]
                 /\ Ran(<<<<"bunzip2", 1>>>>)
                 /\ Crash("FileNotFoundError: getsize")
                 /\ Fatal
                 /\ UNCHANGED <<files_to_upload_dict, failed_files, class, vTodo, unzipped>>
            [] fate = "unreadable" ->
                 /\ Ran(<<<<"bunzip2", 1>>>>)
                 /\ Drop /\ Continue
                 /\ Env(TRUE)
                 /\ UNCHANGED <<holding, unzipped>>
            [] OTHER ->
                 /\ UNCHANGED holding
                 /\ Continue
                 /\ IF BunzipTest(bytes) = 2
                    THEN /\ Ran(<<<<"bunzip2", 2>>>>)
                         /\ Fail("Failed BZ2 integrity test")
                         /\ UNCHANGED <<unzipped, faults>>
                    ELSE IF TooSmall(FileSize(bytes))
                    THEN /\ Ran(<<<<"bunzip2", 0>>, <<"size", FileSize(bytes)>>>>)
                         /\ Fail("File contains no records (empty)")
                         /\ UNCHANGED <<unzipped, faults>>
                    ELSE \E returncode \in BzcatCodes :
                         /\ Env(returncode # 0)
                         /\ IF returncode = 1
                            THEN \* the redirection created the decompressed file
                                 /\ Ran(<<<<"bunzip2", 0>>, <<"size", FileSize(bytes)>>,
                                          <<"bzcat", returncode>>>>)
                                 /\ Drop
                                 /\ unzipped' = unzipped \cup {data_file}
                            ELSE IF BunzipTest(bytes) = 2
                            THEN /\ Ran(<<<<"bunzip2", 0>>, <<"size", FileSize(bytes)>>,
                                          <<"bzcat", returncode>>>>)
                                 /\ Fail("Failed BZ2 integrity test")
                                 /\ UNCHANGED unzipped
                            ELSE \* pydarnio reads what bzcat wrote: all of the content,
                                 \* or the part that came before the corruption
                                 \E raises \in BOOLEAN :
                                 /\ returncode = 0 => raises = DmapRaises(bytes)
                                 /\ Ran(<<<<"bunzip2", 0>>, <<"size", FileSize(bytes)>>,
                                          <<"bzcat", returncode>>,
                                          <<"dmap", IF raises THEN 1 ELSE 0>>>>)
                                 /\ UNCHANGED unzipped
                                 /\ IF raises THEN Fail(DmapReason) ELSE Pass
    /\ UNCHANGED <<archive, blocked_sub, nomatch_sub, failed_sub, wd_hashes, wd_failed, wd_master,
                   elements, runs, task_successful_transfers, scanned, blocked_data, ymTodo, yearmonth_dict,
                   new_hash_file, non_matching_files, last_task, batch, succeeded_files,
                   yearmonth_hash_dict, email_flag, snap>>

\* The line update_failed writes for a failed file: "<hash>  <name> | <reason>".
FailedLine(add_failed_files, filename_key) ==
    <<add_failed_files[filename_key][1], filename_key, add_failed_files[filename_key][2]>>

\* A test that looks for the whole line, reason included.
SameLineFailed(filetext, add_failed_files, filename_key) ==
    \E i \in DOMAIN filetext : filetext[i] = FailedLine(add_failed_files, filename_key)

\* A test that skips a file whose name is in a line, whatever the hash.
NameAlreadyFailed(filetext, add_failed_files, filename_key) ==
    \E i \in DOMAIN filetext : InLine(filename_key, filetext[i])

\* The for/else of update_failed (lines 770-776): a file is written unless a line
\* of filetext, the lines read before anything is written, holds both its hash and
\* its name.
AlreadyFailed(filetext, add_failed_files, filename_key) ==
    \E i \in DOMAIN filetext :
        /\ InLine(add_failed_files[filename_key][1], filetext[i])
        /\ InLine(filename_key, filetext[i])

\* all_failed.txt of the working directory after update_failed has appended to it.
\* The keys of add_failed_files are visited in insertion order, which in main is
\* the sorted order of the loop of step 7.
RECURSIVE AppendFailed(_, _, _)
AppendFailed(filetext, add_failed_files, order) ==
    IF order = <<>> THEN <<>>
    ELSE (IF AlreadyFailed(filetext, add_failed_files, Head(order))
          THEN <<>>
          ELSE <<FailedLine(add_failed_files, Head(order))>>)
         \o AppendFailed(filetext, add_failed_files, Tail(order))

\* An update that opens the file for writing: only the new lines are left.
update_failed_rewritten(filetext, add_failed_files) ==
    AppendFailed(filetext, add_failed_files, SortNames(DOMAIN add_failed_files))

\* An update that appends nothing.
update_failed_nothing(filetext, add_failed_files) == filetext

update_failed(filetext, add_failed_files) ==
    filetext \o AppendFailed(filetext, add_failed_files, SortNames(DOMAIN add_failed_files))

\* A test that takes whatever is at the path for a ledger to append to.
NoLedgerNever(file) == FALSE

\* The tests of lines 758-763 on all_failed.txt of the working directory: it is
\* not a file, or it is empty.
NoLedger(file) == file = NoFile \/ file = <<>>

\* A wait that is not repeated: the task is left as the first wait found it.
WaitedOnce(task) == {task}

\* `while not gk.wait_for_last_task()` on a task submitted earlier: the loop ends
\* when the task has ended, well or badly.
Settled(task) ==
    IF task[2] = "ACTIVE" THEN {<<task[1], "SUCCEEDED">>, <<task[1], "FAILED">>} ELSE {task}

\* Step 8, first part (lines 1441-1453): the ledger is updated and uploaded.
Step8UpdateFailed ==
    /\ pc = "step8"
    /\ UNCHANGED <<checks, uploads, requests, calls>>
    /\ IF NoLedger(wd_failed)
       THEN \* update_failed returns None and submits nothing
            /\ email_subject' = email_subject \cup {"error updating all_failed.txt"}
            /\ email_flag' = 1
            /\ last_task' \in Settled(last_task)
            /\ UNCHANGED <<wd_failed, mirror_failed_txt, faults>>
       ELSE /\ wd_failed' = update_failed(wd_failed, failed_files)
            /\ \E status \in {"SUCCEEDED", "FAILED"} :
                  /\ Env(status = "FAILED")
                  /\ last_task' = <<"update_failed", status>>
                  /\ mirror_failed_txt' = IF status = "SUCCEEDED" THEN wd_failed'
                                          ELSE mirror_failed_txt
            /\ UNCHANGED <<email_subject, email_flag>>
    /\ pc' = "step8move"
    /\ UNCHANGED <<mirror_hashes, mirror_master, mirror_data, mirror_failed_dir, blocklist,
                   mirror_dirs, task_successful_transfers, holding, blocked_sub,
                   nomatch_sub, failed_sub, unzipped, wd_hashes, wd_master, elements, runs, exit_msg,
                   scanned, files_to_upload_dict, blocked_data, ymTodo, yearmonth_dict,
                   new_hash_file, non_matching_files, failed_files, vTodo, batch,
                   succeeded_files, yearmonth_hash_dict, emails, class, snap>>
    \* the wait of line 1450
    /\ waits' = waits \cup {<<"update_failed", last_task'[1]>>}

\* filename[0:4] and filename[4:6] of a name of the universe.
Year(name) == IF name[1] = "202312" THEN "2023" ELSE "2024"
Month(name) == IF name[1] = "202312" THEN "12" ELSE "01"

\* elements[6] of parse_data_filename: the radar abbreviation.
Abbrev(name) == name[2]

\* A timeout that does not grow with the batch.
upload_timeout_fixed(n) == 60

\* upload_timeout of lines 1478 and 1529, n being len(failed_files) or
\* len(files_to_upload).
upload_timeout(n) == 60 + 10 * n

\* The items sync_failed_files_from_list adds to its transfer (lines 434-443):
\* <<source, destination>>, the destination being <failed dir>/<abbrev>/<name>.
sync_failed_files_from_list(files_to_sync) ==
    {<<f, <<"failed", Abbrev(f), f>>>> : f \in files_to_sync}

\* Step 8, second part (lines 1458-1510): files whose hash did not match move to
\* <holding>/nomatch/<date>/; failed files are uploaded to the failed directory of
\* the mirror and move to <holding>/failed/<date>/ whatever became of the upload.
Step8Move ==
    /\ pc = "step8move"
    /\ UNCHANGED <<checks, uploads, calls>>
    /\ LET nomatch == Range(non_matching_files)
           failed == DOMAIN failed_files
           subject1 == IF nomatch # {} THEN email_subject \cup {"Non matching files"}
                       ELSE email_subject
       IN /\ nomatch_sub' = nomatch_sub \cup nomatch
          /\ failed_sub' = failed_sub \cup failed
          /\ holding' = [n \in Names |->
                           IF n \in nomatch \cup failed THEN Absent ELSE holding[n]]
          /\ email_flag' = IF nomatch \cup failed # {} THEN 1 ELSE email_flag
          /\ IF failed = {}
             THEN /\ email_subject' = subject1
                  /\ UNCHANGED <<emails, last_task, mirror_failed_dir, faults, requests>>
             ELSE \E created \in BOOLEAN :
                  IF created
                  THEN \E status \in {"SUCCEEDED", "FAILED"} :
                       /\ Env(status = "FAILED")
                       /\ last_task' = <<"sync_failed_files_from_list", status>>
                       /\ requests' = Append(requests,
                                             <<"sync_failed_files_from_list",
                                               sync_failed_files_from_list(failed),
                                               upload_timeout(Cardinality(failed))>>)
                       /\ mirror_failed_dir' = IF status = "SUCCEEDED"
                                               THEN mirror_failed_dir \cup failed
                                               ELSE mirror_failed_dir
                       /\ LET subject2 ==
                                 IF status = "SUCCEEDED" THEN subject1
                                 ELSE subject1 \cup {"sync_files_from_list failed to sync failed files"}
                          IN  /\ emails' = IF status = "SUCCEEDED" THEN emails
                                           ELSE emails \cup {subject2}
                              /\ email_subject' = subject2 \cup {"Failed files"}
                  ELSE \* create_new_dir failed: nothing is submitted, the waits
                       \* and the test look at the task submitted before
                       \E task \in Settled(last_task) :
                       /\ last_task' = task
                       /\ Env(TRUE)
                       /\ UNCHANGED <<mirror_failed_dir, requests>>
                       /\ LET subject2 == subject1 \cup {"sync_failed_files_from_list failed"}
                              subject3 ==
                                 IF task[2] = "SUCCEEDED" THEN subject2
                                 ELSE subject2 \cup {"sync_files_from_list failed to sync failed files"}
                          IN  /\ emails' = emails \cup {subject2, subject3}
                              /\ email_subject' = subject3 \cup {"Failed files"}
    /\ pc' = "step9"
    /\ UNCHANGED <<mirror_hashes, mirror_master, mirror_failed_txt, mirror_data, blocklist,
                   mirror_dirs, task_successful_transfers, blocked_sub, unzipped,
                   wd_hashes, wd_failed, wd_master, elements, runs, exit_msg, scanned,
                   files_to_upload_dict, blocked_data, ymTodo, yearmonth_dict,
                   new_hash_file, non_matching_files, failed_files, vTodo, batch,
                   succeeded_files, yearmonth_hash_dict, class, snap>>
    \* the waits of lines 1486-1487 and the test of line 1489
    /\ waits' = IF failed_files = <<>> THEN waits
              ELSE waits \cup {<<"sync_failed_files_from_list", last_task'[1]>>}

\* A test that takes every ended task for a successful one.
last_task_assumed(task) == TRUE

\* gk.last_task_succeeded() (lines 982-985): 'SUCCEEDED' in the status of the task.
last_task_succeeded(task) == task[2] = "SUCCEEDED"

\* Items that leave out the directories of the year and the month.
sync_files_flat(files_to_sync, data_type) ==
    {<<f, <<data_type, "", "", f>>>> : f \in files_to_sync}

\* The items sync_files_from_list adds to its transfer (lines 410-413):
\* <<source, destination>>, the destination being
\* <mirror root>/<data_type>/<name[0:4]>/<name[4:6]>/<name>.
sync_files_from_list(files_to_sync, data_type) ==
    {<<f, <<data_type, Year(f), Month(f), f>>>> : f \in files_to_sync}

\* Step 9 (lines 1517-1543): what is left of files_to_upload_dict is submitted as
\* one batch transfer with sync_level "checksum".  An item whose destination
\* already holds the same content is skipped; the others are the ones the task
\* reports as its successful transfers.  The service is not trusted to have put a
\* reported file in place (line 1584).
Step9 ==
    /\ pc = "step9"
    /\ UNCHANGED <<checks, uploads, calls>>
    /\ IF Keys = {}
       THEN /\ Abort("No files to upload")
            /\ UNCHANGED <<batch, last_task, mirror_data, mirror_dirs,
                           task_successful_transfers, faults, requests>>
       ELSE LET differing == {f \in Keys : mirror_data[f] # holding[f]}
                \* how the first wait (line 1534) finds the task, and how the
                \* loop of lines 1535-1536 leaves it
            IN \E first \in TaskOutcomes, landed \in SUBSET differing :
               \E task \in Settled(<<"sync_files_from_list", first>>) :
               LET status == task[2] IN
               /\ Env(status = "FAILED" \/ landed # differing)
               /\ batch' = Keys
               \* data_type is left to its default (lines 402-403)
               /\ requests' = Append(requests,
                                     <<"sync_files_from_list",
                                       sync_files_from_list(Keys, "raw"),
                                       upload_timeout(Cardinality(Keys))>>)
               /\ last_task' = task
               /\ mirror_data' = [n \in Names |->
                                    IF n \in landed THEN holding[n] ELSE mirror_data[n]]
               /\ mirror_dirs' = mirror_dirs \cup {YearMonth(f) : f \in landed}
               /\ IF last_task_succeeded(task)
                  THEN /\ task_successful_transfers' = differing
                       /\ Goto("step10")
                  ELSE /\ task_successful_transfers' = landed
                       /\ Abort("sync_files_from_list failed")
    /\ UNCHANGED <<mirror_hashes, mirror_master, mirror_failed_txt, mirror_failed_dir,
                   blocklist, local, runs, scanned, files_to_upload_dict, blocked_data,
                   ymTodo, yearmonth_dict, new_hash_file, non_matching_files,
                   failed_files, vTodo, succeeded_files, yearmonth_hash_dict,
                   email_flag, class, snap>>
    \* the waits of lines 1534-1535 and the test of line 1537
    /\ waits' = IF Keys = {} THEN waits
              ELSE waits \cup {<<"sync_files_from_list", last_task'[1]>>}

\* Step 10 (lines 1551-1590).  With a transferred file there is a data type and a
\* group, so line 1578 runs: list.append is called with two arguments and raises
\* TypeError before any file is confirmed, removed or given a manifest line.
Step10 ==
    /\ pc = "step10"
    /\ UNCHANGED <<checks, uploads, requests, calls, waits>>
    /\ UNCHANGED faults
    /\ succeeded_files' = task_successful_transfers
    /\ IF task_successful_transfers # {}
       THEN /\ Crash("TypeError: list.append() takes exactly one argument (2 given)")
            /\ yearmonth_hash_dict' = [ym \in {YearMonth(f) : f \in task_successful_transfers}
                                          |-> <<>>]
       ELSE /\ Goto("step11")
            /\ yearmonth_hash_dict' = <<>>
    /\ UNCHANGED <<archive, local, runs, task_successful_transfers, scanned, files_to_upload_dict, blocked_data,
                   ymTodo, yearmonth_dict, new_hash_file, non_matching_files,
                   failed_files, vTodo, last_task, batch, email_flag, class, snap>>

\* An append that writes the string of step 10 twice.
AppendedTwice(ym) ==
    IF ym \in DOMAIN yearmonth_hash_dict /\ yearmonth_hash_dict[ym] # <<>>
    THEN (IF wd_hashes[ym] = NoFile THEN <<>> ELSE wd_hashes[ym])
         \o yearmonth_hash_dict[ym] \o yearmonth_hash_dict[ym]
    ELSE wd_hashes[ym]

\* The manifest of group ym in the working directory after the string of step 10
\* has been appended to it (lines 1605-1608; mode 'a' creates a missing file).
AppendedHashes(ym) ==
    IF ym \in DOMAIN yearmonth_hash_dict /\ yearmonth_hash_dict[ym] # <<>>
    THEN (IF wd_hashes[ym] = NoFile THEN <<>> ELSE wd_hashes[ym]) \o yearmonth_hash_dict[ym]
    ELSE wd_hashes[ym]

\* An upload of the string of step 10 alone, for every group.
PublishedStringOnly(ym, puts) ==
    IF ym \in DOMAIN yearmonth_hash_dict THEN yearmonth_hash_dict[ym] ELSE <<>>

\* What put_hashes leaves on the archive for group ym (lines 1610-1614): the file of
\* the working directory when the upload succeeded.  puts gives the status in which
\* the upload of every group with a string ended.
PublishedHashes(ym, puts) ==
    IF ym \in DOMAIN puts /\ puts[ym] = "SUCCEEDED"
    THEN AppendedHashes(ym)
    ELSE mirror_hashes[ym]

\* A dictionary that starts empty instead of from the fetched master.hashes.
MasterDictOfUpdates(master_file, updated) ==
    [g \in DOMAIN updated |-> Digest(updated[g])]

\* A dictionary in which a key of the fetched master.hashes keeps its digest.
MasterDictKeepsOld(master_file, updated) ==
    [g \in {master_file[i][2] : i \in DOMAIN master_file} \cup DOMAIN updated |->
        IF g \in {master_file[i][2] : i \in DOMAIN master_file}
        THEN master_file[CHOOSE i \in DOMAIN master_file : master_file[i][2] = g][1]
        ELSE Digest(updated[g])]

\* The dictionary hashes of lines 1640-1664: the lines of the fetched master.hashes,
\* then the digest of the manifest of every group of yearmonth_hash_dict.
MasterDict(master_file, updated) ==
    [g \in {master_file[i][2] : i \in DOMAIN master_file} \cup DOMAIN updated |->
        IF g \in DOMAIN updated THEN Digest(updated[g])
        ELSE master_file[CHOOSE i \in DOMAIN master_file : master_file[i][2] = g][1]]

\* The entries of the log of uploads for the manifests of the groups: one for
\* every group with a string, in the sorted order of the loop of line 1601.
PutLog(puts) ==
    [i \in 1..Cardinality(DOMAIN puts) |->
        <<"put_hashes", SortGroups(DOMAIN puts)[i], puts[SortGroups(DOMAIN puts)[i]]>>]

\* Step 11 (lines 1597-1697).  The manifest of every group of yearmonth_hash_dict
\* with a string is appended to and uploaded, and the upload is waited for until it
\* has ended, well or badly (lines 1612-1614; how it ended is not looked at).  Then
\* master.hashes is fetched and read, the manifest of every group of
\* yearmonth_hash_dict is moved to raw/ and hashed (the rename of line 1655 raises
\* when the working directory has no manifest of the group), master.hashes is
\* rewritten and uploaded.
Step11 ==
    /\ pc = "step11"
    /\ UNCHANGED <<checks, requests, calls>>
    /\ LET yearmonth == DOMAIN yearmonth_hash_dict
           with_string == {ym \in yearmonth : yearmonth_hash_dict[ym] # <<>>}
           empty_string == yearmonth # with_string
       IN \E puts \in [with_string -> {"SUCCEEDED", "FAILED"}], status \in TaskOutcomes :
          LET fetched == IF status = "SUCCEEDED" THEN mirror_master ELSE wd_master
              put_failed == \E ym \in with_string : puts[ym] = "FAILED"
          IN  /\ wd_hashes' = [ym \in Groups |-> AppendedHashes(ym)]
              /\ mirror_hashes' = [ym \in Groups |-> PublishedHashes(ym, puts)]
              /\ IF status = "ACTIVE"
                 THEN /\ Abort("get_master_hashes timeout")
                      /\ put_failed => faults < MaxFaults
                      /\ Fatal
                      /\ last_task' = <<"get_master_hashes", status>>
                      /\ uploads' = PutLog(puts)
                      /\ email_flag' = IF empty_string THEN 1 ELSE email_flag
                      /\ UNCHANGED <<wd_master, mirror_master>>
                 ELSE IF fetched = NoFile
                 THEN /\ Crash("FileNotFoundError: master.hashes")
                      /\ Env(status = "FAILED" \/ put_failed)
                      /\ last_task' = <<"get_master_hashes", status>>
                      /\ uploads' = PutLog(puts)
                      /\ email_flag' = IF empty_string THEN 1 ELSE email_flag
                      /\ UNCHANGED <<wd_master, mirror_master>>
                 ELSE IF \E ym \in yearmonth : AppendedHashes(ym) = NoFile
                 THEN /\ Crash("FileNotFoundError: rename")
                      /\ Env(status = "FAILED" \/ put_failed)
                      /\ last_task' = <<"get_master_hashes", status>>
                      /\ uploads' = PutLog(puts)
                      /\ email_flag' = 1
                      /\ wd_master' = fetched
                      /\ UNCHANGED mirror_master
                 ELSE \E put \in TaskOutcomes, arrives \in BOOLEAN :
                      /\ Env(status = "FAILED" \/ put_failed \/ put # "SUCCEEDED")
                      /\ wd_master' = MasterLines(MasterDict(fetched,
                                          [ym \in yearmonth |-> AppendedHashes(ym)]))
                      /\ last_task' = <<"put_master_hashes", put>>
                      /\ uploads' = Append(PutLog(puts), <<"put_master_hashes", "", put>>)
                      /\ mirror_master' =
                            IF put = "SUCCEEDED" \/ (put = "ACTIVE" /\ arrives)
                            THEN wd_master' ELSE mirror_master
                      /\ email_flag' = IF empty_string \/ put = "ACTIVE" THEN 1 ELSE email_flag
                      /\ pc' = "done"
                      /\ emails' = IF email_flag' = 1 THEN emails \cup {email_subject}
                                   ELSE emails
                      /\ UNCHANGED <<exit_msg, email_subject>>
    /\ UNCHANGED <<mirror_failed_txt, mirror_data, mirror_failed_dir, blocklist,
                   mirror_dirs, task_successful_transfers, holding, blocked_sub,
                   nomatch_sub, failed_sub, unzipped, wd_failed, elements, runs, scanned,
                   files_to_upload_dict, blocked_data, ymTodo, yearmonth_dict,
                   new_hash_file, non_matching_files, failed_files, vTodo, batch,
                   succeeded_files, yearmonth_hash_dict, class, snap>>
    \* the waits of lines 1612, 1631 and 1676
    /\ waits' = waits
                 \cup (IF \E ym \in DOMAIN yearmonth_hash_dict : yearmonth_hash_dict[ym] # <<>>
                       THEN {<<"put_hashes", "put_hashes">>} ELSE {})
                 \cup {<<"get_master_hashes", "get_master_hashes">>}
                 \cup (IF pc' = "done" THEN {<<"put_master_hashes", last_task'[1]>>} ELSE {})

Next ==
    \/ StartRun
    \/ Step2
    \/ Step3Scan
    \/ Step3GetFailed
    \/ Step3GetBlocklist
    \/ Step4
    \/ Step5
    \/ Step6
    \/ Step7
    \/ Step8UpdateFailed
    \/ Step8Move
    \/ Step9
    \/ Step10
    \/ Step11

Spec == Init /\ [][Next]_vars

\* ------------------------------------------------------------ update_failed alone
\* Gatekeeper.update_failed called any number of times on the all_failed.txt of the
\* working directory (gatekeeper_globus.py 742-793, gatekeeper_class.py 744-796 is
\* the same code).  failed_files holds the argument of the last call.
MaxLedger == 6

LedgerHashes == {Sha1("bz2bad"), Sha1("empty14")}
LedgerReasons == {<<"reason", "Failed BZ2 integrity test">>,
                  <<"reason", "File contains no records (empty)">>}
LedgerNames == {N1, N2}
LedgerArgs ==
    UNION {[S -> LedgerHashes \X LedgerReasons] : S \in SUBSET LedgerNames}

InitLedger ==
    /\ mirror_hashes = [g \in Groups |-> NoFile]
    /\ mirror_master = <<>>
    /\ mirror_failed_txt = <<SeedLine>>
    /\ mirror_data = [n \in Names |-> Absent]
    /\ mirror_failed_dir = {}
    /\ mirror_dirs = {}
    /\ blocklist = {}
    /\ holding = [n \in Names |-> Absent]
    /\ blocked_sub = {} /\ nomatch_sub = {} /\ failed_sub = {} /\ unzipped = {}
    /\ wd_hashes = [g \in Groups |-> NoFile]
    /\ wd_failed \in {NoFile, <<>>, <<SeedLine>>}
    /\ wd_master = NoFile
    /\ elements = <<>>
    /\ runs = 0
    /\ faults = 0
    /\ task_successful_transfers = {}
    /\ pc = "idle"
    /\ exit_msg = ""
    /\ scanned = {}
    /\ files_to_upload_dict = <<>>
    /\ blocked_data = {}
    /\ ymTodo = <<>>
    /\ yearmonth_dict = {}
    /\ new_hash_file = FALSE
    /\ non_matching_files = <<>>
    /\ failed_files = <<>>
    /\ vTodo = <<>>
    /\ last_task = NoTask
    /\ batch = {}
    /\ succeeded_files = {}
    /\ yearmonth_hash_dict = <<>>
    /\ email_flag = 0
    /\ email_subject = {}
    /\ emails = {}
    /\ class = [n \in Names |-> {}]
    /\ checks = [n \in Names |-> <<>>]
    /\ uploads = <<>>
    /\ requests = <<>>
    /\ waits = {}
    /\ NoCall
    /\ snap = NoSnap

\* One call update_failed(add_failed_files) and the end of its upload.
UpdateFailedCall ==
    /\ Len(wd_failed) < MaxLedger
    /\ UNCHANGED <<checks, uploads, requests, calls, waits>>
    /\ \E add_failed_files \in LedgerArgs :
          /\ failed_files' = add_failed_files
          /\ IF NoLedger(wd_failed)
             THEN UNCHANGED <<wd_failed, mirror_failed_txt, last_task>>
             ELSE /\ wd_failed' = update_failed(wd_failed, add_failed_files)
                  /\ \E status \in {"SUCCEEDED", "FAILED"} :
                        /\ last_task' = <<"update_failed", status>>
                        /\ mirror_failed_txt' = IF status = "SUCCEEDED" THEN wd_failed'
                                                ELSE mirror_failed_txt
    /\ UNCHANGED <<mirror_hashes, mirror_master, mirror_data, mirror_failed_dir, blocklist,
                   mirror_dirs, holding, blocked_sub, nomatch_sub, failed_sub, unzipped,
                   wd_hashes, wd_master, elements, runs, faults,
                   task_successful_transfers, pc, exit_msg, scanned,
                   files_to_upload_dict, blocked_data, ymTodo, yearmonth_dict,
                   new_hash_file, non_matching_files, vTodo, batch, succeeded_files,
                   yearmonth_hash_dict, email_flag, email_subject, emails, class, snap>>

NextLedger == UpdateFailedCall

SpecLedger == InitLedger /\ [][NextLedger]_vars

\* ------------------------------------------------------------ step 11 alone
\* Step 11 on what steps 2 to 10 hand it.  A run of main never takes a string for a
\* manifest to step 11 (line 1578 ends every run that has a transferred file), so
\* the initial states here are the states in which the loop of lines 1582-1590
\* leaves a run without faults in steps 2 to 9, steps 6 and 9 excepted, when
\* mirror_list holds the names of the files of the archive: the manifests are
\* fetched and reconciled by the operators of step 6, every file left is valid and
\* submitted, and every transferred file found on the archive is removed from the
\* holding directory and given a line.

\* Contents of the holding directory when the run started.
PublishHolding(n) == IF n = N1 THEN {"valid1"} ELSE {Absent, "valid1"}

\* The loop of step 6 over the groups todo: st after the manifest of every group
\* whose fetch succeeded has been compared with the holding directory dir.
RECURSIVE ReconcileGroups(_, _, _, _, _)
ReconcileGroups(todo, hashes, dir, got, st) ==
    IF todo = <<>> THEN st
    ELSE IF hashes[Head(todo)] # NoFile /\ got[Head(todo)] = "SUCCEEDED"
    THEN ReconcileGroups(Tail(todo), hashes, dir, got,
                         Reconcile(Sha1sumCheck(hashes[Head(todo)], dir), 1, st))
    ELSE ReconcileGroups(Tail(todo), hashes, dir, got, st)

\* The string of step 10 for the files S of one group (line 1588), as lines.
HashLines(S, dir) ==
    [i \in 1..Cardinality(S) |-> <<Sha1(dir[SortNames(S)[i]]), SortNames(S)[i]>>]

\* The checks step 7 runs on a valid file.
PassedChecks == <<<<"bunzip2", 0>>, <<"size", 100>>, <<"bzcat", 0>>, <<"dmap", 0>>>>

InitPublish ==
    \E hashes \in [Groups -> UNION {ManifestChoices(g) : g \in Groups}],
       dir \in [Names -> {Absent, "valid1"}],
       got \in [Groups -> {"SUCCEEDED", "FAILED"}] :
       LET present == {n \in Names : dir[n] # Absent}
           visited == {YearMonth(n) : n \in present}
           st == ReconcileGroups(SortGroups(visited), hashes, dir, got,
                                 [keys |-> present, nomatch |-> <<>>,
                                  removed |-> {}, keyerror |-> FALSE])
           data == ArchiveData(hashes)
           differing == {f \in st.keys : data[f] # dir[f]}
           fetched == {g \in visited : hashes[g] # NoFile /\ got[g] = "SUCCEEDED"}
       IN \E landed \in SUBSET differing :
          /\ \A g \in Groups : hashes[g] \in ManifestChoices(g)
          /\ \A n \in Names : dir[n] \in PublishHolding(n)
          \* step 6 neither aborts nor crashes, step 9 has a file to submit
          /\ \A g \in visited : hashes[g] # NoFile \/ IsCurrentMonth(g)
          /\ \A g \in Groups : got[g] = "FAILED" => (g \in visited /\ hashes[g] # NoFile)
          /\ ~st.keyerror
          /\ st.keys # {}
          /\ faults = Cardinality({g \in Groups : got[g] = "FAILED"})
                      + (IF landed = differing THEN 0 ELSE 1)
          /\ faults <= MaxFaults
          /\ mirror_hashes = hashes
          /\ mirror_master = MasterLines([g \in {x \in Groups : hashes[x] # NoFile}
                                             |-> Digest(hashes[g])])
          /\ mirror_failed_txt = <<SeedLine>>
          /\ mirror_data = [n \in Names |-> IF n \in landed THEN dir[n] ELSE data[n]]
          /\ mirror_failed_dir = {}
          /\ mirror_dirs = {g \in Groups : hashes[g] # NoFile} \cup visited
          /\ blocklist = {}
          /\ holding = [n \in Names |->
                          IF n \in st.removed \cup Range(st.nomatch) \cup landed
                          THEN Absent ELSE dir[n]]
          /\ blocked_sub = {} /\ failed_sub = {} /\ unzipped = {}
          /\ nomatch_sub = Range(st.nomatch)
          /\ wd_hashes = [g \in Groups |-> IF g \in fetched THEN hashes[g] ELSE NoFile]
          /\ wd_failed = <<SeedLine>>
          /\ wd_master = mirror_master
          /\ elements = ExampleElements
          /\ runs = 1
          /\ task_successful_transfers = differing
          /\ pc = "step11"
          /\ exit_msg = ""
          /\ scanned = present
          /\ files_to_upload_dict =
                [f \in st.keys |->
                    [hash |-> Sha1(dir[f]), yearmonth |-> YearMonth(f),
                     year |-> elements[1], month |-> elements[2],
                     day |-> elements[3], type |-> elements[8]]]
          /\ blocked_data = {}
          /\ ymTodo = <<>>
          /\ yearmonth_dict = visited
          /\ new_hash_file = (\E g \in visited : hashes[g] = NoFile)
          /\ non_matching_files = st.nomatch
          /\ failed_files = <<>>
          /\ vTodo = <<>>
          /\ last_task = <<"sync_files_from_list", "SUCCEEDED">>
          /\ batch = st.keys
          /\ succeeded_files = differing
          /\ yearmonth_hash_dict =
                [ym \in {YearMonth(f) : f \in differing} |->
                    HashLines({f \in landed : YearMonth(f) = ym}, dir)]
          /\ email_flag = IF st.nomatch # <<>> THEN 1 ELSE 0
          /\ email_subject = IF st.nomatch # <<>> THEN {"Non matching files"} ELSE {}
          /\ emails = {}
          /\ class = [n \in Names |->
                        IF n \in Range(st.nomatch) THEN {"HashMismatch"}
                        ELSE IF n \in st.removed THEN {"AlreadyOnArchive"}
                        ELSE IF n \in st.keys THEN {"Eligible"}
                        ELSE {}]
          /\ checks = [n \in Names |-> IF n \in st.keys THEN PassedChecks ELSE <<>>]
          /\ uploads = <<>>
          /\ requests = << <<"sync_files_from_list", sync_files_from_list(st.keys, "raw"),
                             upload_timeout(Cardinality(st.keys))>> >>
          /\ waits = {<<"get_master_hashes", "get_master_hashes">>,
                      <<"get_failed", "get_failed">>,
                      <<"get_blocklist", "get_blocklist">>,
                      <<"sync_files_from_list", "sync_files_from_list">>}
                     \cup (IF \E g \in visited : hashes[g] # NoFile
                           THEN {<<"get_hashes", "get_hashes">>} ELSE {})
          /\ snap = <<hashes, mirror_master, mirror_failed_txt, data, dir, <<>>>>
          /\ NoCall

NextPublish == Step11

SpecPublish == InitPublish /\ [][NextPublish]_vars

\* ------------------------------------------------------------ check_for_file_existence alone
\* Gatekeeper.check_for_file_existence called on a path of the mirror
\* (gatekeeper_globus.py 845-888; gatekeeper_class.py 848-889 is the copy of the
\* method in the other module).  The two copies differ in the local variable they
\* set to None before the loop: errormsg in gatekeeper_globus.py, msg in
\* gatekeeper_class.py, which leaves errormsg unbound until an API error binds it.
maximum_retries == 5

Calling == "calling"
Unbound == "unbound"

\* What one transfer_client.operation_ls comes to: the listing, a TransferAPIError
\* with one of the three messages the method knows or with another one, or a
\* NetworkError.
LsAnswers == {"listed", "not found on endpoint", "is a file", "is not a directory",
              "TransferAPIError", "NetworkError"}

\* The state main is in when it calls the method at line 1121, nothing fetched yet.
InitExistence ==
    /\ mirror_hashes = [g \in Groups |-> NoFile]
    /\ mirror_master = <<>>
    /\ mirror_failed_txt = <<SeedLine>>
    /\ mirror_data = [n \in Names |-> Absent]
    /\ mirror_failed_dir = {}
    /\ mirror_dirs = {}
    /\ blocklist = {}
    /\ holding = [n \in Names |-> Absent]
    /\ blocked_sub = {} /\ nomatch_sub = {} /\ failed_sub = {} /\ unzipped = {}
    /\ wd_hashes = [g \in Groups |-> NoFile]
    /\ wd_failed = NoFile
    /\ wd_master = NoFile
    /\ elements = <<>>
    /\ runs = 1
    /\ faults = 0
    /\ task_successful_transfers = {}
    /\ pc = "step2"
    /\ exit_msg = ""
    /\ scanned = {}
    /\ files_to_upload_dict = <<>>
    /\ blocked_data = {}
    /\ ymTodo = <<>>
    /\ yearmonth_dict = {}
    /\ new_hash_file = FALSE
    /\ non_matching_files = <<>>
    /\ failed_files = <<>>
    /\ vTodo = <<>>
    /\ last_task = NoTask
    /\ batch = {}
    /\ succeeded_files = {}
    /\ yearmonth_hash_dict = <<>>
    /\ email_flag = 0
    /\ email_subject = {}
    /\ emails = {}
    /\ class = [n \in Names |-> {}]
    /\ checks = [n \in Names |-> <<>>]
    /\ uploads = <<>>
    /\ requests = <<>>
    /\ waits = {}
    /\ snap = NoSnap
    /\ retries = 0
    /\ errormsg \in {"None", Unbound}
    /\ ls_answers = <<>>
    /\ returned = Calling
    /\ um_pc = NotCalled
    /\ um_todo = <<>>

\* One pass of the loop of lines 859-881.
ExistenceListing ==
    /\ returned = Calling
    /\ retries < maximum_retries
    /\ \E answer \in LsAnswers :
          /\ ls_answers' = Append(ls_answers, answer)
          /\ CASE answer = "listed" ->
                    returned' = "True" /\ UNCHANGED <<retries, errormsg>>
               [] answer = "not found on endpoint" ->
                    returned' = "False" /\ UNCHANGED <<retries, errormsg>>
               [] answer \in {"is a file", "is not a directory"} ->
                    returned' = "True" /\ UNCHANGED <<retries, errormsg>>
               [] answer = "TransferAPIError" ->
                    /\ errormsg' = "str(error)"
                    /\ retries' = retries + 1
                    /\ UNCHANGED returned
               [] OTHER ->
                    /\ retries' = retries + 1
                    /\ UNCHANGED <<errormsg, returned>>
    /\ UNCHANGED <<archive, local, runs, faults, task_successful_transfers, pc, exit_msg,
                   scanned, files_to_upload_dict, blocked_data, ymTodo, yearmonth_dict,
                   new_hash_file, non_matching_files, failed_files, vTodo, last_task,
                   batch, succeeded_files, yearmonth_hash_dict, email_flag,
                   email_subject, emails, class, checks, uploads, requests, waits, snap,
                   um_pc, um_todo>>

\* The lines after the loop (882-888): the message is put together, the
\* notification sent and the process ended.  Putting the message together reads
\* errormsg (gatekeeper_class.py 885-886 reads it whatever the answers were).
ExistenceGiveUp ==
    /\ returned = Calling
    /\ retries >= maximum_retries
    /\ IF errormsg = Unbound
       THEN /\ Crash("UnboundLocalError: local variable 'errormsg' referenced before assignment")
            /\ returned' = "raised"
       ELSE /\ Abort("Check for file existence failed")
            /\ returned' = "exited"
    /\ UNCHANGED <<archive, local, runs, faults, task_successful_transfers,
                   scanned, files_to_upload_dict, blocked_data, ymTodo, yearmonth_dict,
                   new_hash_file, non_matching_files, failed_files, vTodo, last_task,
                   batch, succeeded_files, yearmonth_hash_dict, email_flag,
                   class, checks, uploads, requests, waits, snap,
                   retries, errormsg, ls_answers, um_pc, um_todo>>

NextExistence ==
    \/ ExistenceListing
    \/ ExistenceGiveUp

SpecExistence == InitExistence /\ [][NextExistence]_vars

\* ------------------------------------------------------------ update_master_hashes alone
\* Gatekeeper.update_master_hashes (lines 587-621) with the methods it calls:
\* get_hashes_all and get_hashes_range (634-715), wait_for_last_task (820-831) and
\* put_master_hashes.  main does not call it (line 1675 is a comment); it is
\* called here where that line stands, after the fetch of master.hashes.

\* self.possible_data_types (line 174)
possible_data_types == <<"raw", "dat">>

\* wait_for_last_task (lines 820-831): None when there is no last transfer, else
\* what task_wait returns: True when the task has ended, False while it is active.
wait_for_last_task(task) ==
    IF task = NoTask THEN "None"
    ELSE IF task[2] = "ACTIVE" THEN "False"
    ELSE "True"

\* The hashes files of the mirror get_hashes_range finds for the data type 'raw'
\* (2005-06 to the current month): the manifests of the groups.
RawHashesFiles == {g \in Groups : mirror_hashes[g] # NoFile}

\* A hashes file of the data type 'dat' (1993-09 to 2006-07), as a line of
\* master.hashes.
DatLine == <<Digest(<<>>), "200607">>

InitMaster ==
    /\ mirror_hashes \in [Groups -> UNION {ManifestChoices(g) : g \in Groups}]
    /\ \A g \in Groups : mirror_hashes[g] \in ManifestChoices(g)
    /\ mirror_master = MasterLines([g \in {x \in Groups : mirror_hashes[x] # NoFile}
                                       |-> Digest(mirror_hashes[g])])
    /\ mirror_failed_txt = <<SeedLine>>
    /\ mirror_data = ArchiveData(mirror_hashes)
    /\ mirror_failed_dir = {}
    /\ mirror_dirs = {g \in Groups : mirror_hashes[g] # NoFile}
    /\ blocklist = {}
    /\ holding = [n \in Names |-> Absent]
    /\ blocked_sub = {} /\ nomatch_sub = {} /\ failed_sub = {} /\ unzipped = {}
    /\ wd_hashes = [g \in Groups |-> NoFile]
    /\ wd_failed = NoFile
    /\ wd_master \in {NoFile, mirror_master}
    /\ elements = <<>>
    /\ runs = 1
    /\ faults = 0
    /\ task_successful_transfers = {}
    /\ pc = "step11"
    /\ exit_msg = ""
    /\ scanned = {}
    /\ files_to_upload_dict = <<>>
    /\ blocked_data = {}
    /\ ymTodo = <<>>
    /\ yearmonth_dict = {}
    /\ new_hash_file = FALSE
    /\ non_matching_files = <<>>
    /\ failed_files = <<>>
    /\ vTodo = <<>>
    /\ last_task \in {NoTask, <<"get_master_hashes", "SUCCEEDED">>,
                      <<"get_master_hashes", "FAILED">>}
    /\ batch = {}
    /\ succeeded_files = {}
    /\ yearmonth_hash_dict = <<>>
    /\ email_flag = 0
    /\ email_subject = {}
    /\ emails = {}
    /\ class = [n \in Names |-> {}]
    /\ checks = [n \in Names |-> <<>>]
    /\ uploads = <<>>
    /\ requests = <<>>
    /\ waits = {}
    /\ snap = NoSnap
    /\ retries = 0
    /\ errormsg = "None"
    /\ ls_answers = <<>>
    /\ returned = NotCalled
    /\ um_pc = "clear"
    /\ um_todo = possible_data_types

\* Line 603: master.hashes of the working directory is emptied.
UmClear ==
    /\ um_pc = "clear"
    /\ wd_master' = <<>>
    /\ um_pc' = "get"
    /\ UNCHANGED <<archive, holding, blocked_sub, nomatch_sub, failed_sub, unzipped,
                   wd_hashes, wd_failed, elements, run, class, checks, uploads, requests,
                   waits, snap, retries, errormsg, ls_answers, returned, um_todo>>

\* Lines 605-611: get_hashes_all for the next data type.  get_hashes_range asks
\* check_for_file_existence for the hashes file of every month of the range and
\* submits one transfer of those that exist; with none it submits nothing and
\* returns None, which line 714 stores as the last transfer.
UmGetHashesAll ==
    /\ um_pc = "get"
    /\ um_todo # <<>>
    /\ \E listing \in {"answered", "failed"}, dat_file \in BOOLEAN :
          LET data_type == Head(um_todo)
              at_least_one_file == IF data_type = "raw" THEN RawHashesFiles # {}
                                   ELSE dat_file
          IN  IF listing = "failed"
              THEN /\ Abort("Check for file existence failed")
                   /\ um_pc' = "exited"
                   /\ UNCHANGED last_task
              ELSE /\ last_task' = IF at_least_one_file
                                   THEN <<"get_hashes_range", "ACTIVE">>
                                   ELSE NoTask
                   /\ um_pc' = "poll"
                   /\ UNCHANGED <<pc, exit_msg, email_subject, emails>>
    /\ UNCHANGED <<archive, local, runs, faults, task_successful_transfers,
                   scanned, files_to_upload_dict, blocked_data, ymTodo, yearmonth_dict,
                   new_hash_file, non_matching_files, failed_files, vTodo,
                   batch, succeeded_files, yearmonth_hash_dict, email_flag,
                   class, checks, uploads, requests, waits, snap,
                   retries, errormsg, ls_answers, returned, um_todo>>

\* Lines 612-613, one wait of the loop `while not self.wait_for_last_task(...)`:
\* the loop is left when the wait returns True, and goes round when it returns
\* False or None.
UmPoll ==
    /\ um_pc = "poll"
    /\ \E task \in (IF last_task = NoTask THEN {NoTask}
                    ELSE {<<last_task[1], status>> : status \in TaskOutcomes}) :
          /\ last_task' = task
          /\ um_pc' = IF wait_for_last_task(task) = "True" THEN "hash" ELSE "poll"
          /\ wd_hashes' = IF task = <<"get_hashes_range", "SUCCEEDED">>
                             /\ Head(um_todo) = "raw"
                          THEN mirror_hashes ELSE wd_hashes
    /\ UNCHANGED <<archive, holding, blocked_sub, nomatch_sub, failed_sub, unzipped,
                   wd_failed, wd_master, elements, runs, faults,
                   task_successful_transfers, pc, exit_msg,
                   scanned, files_to_upload_dict, blocked_data, ymTodo, yearmonth_dict,
                   new_hash_file, non_matching_files, failed_files, vTodo,
                   batch, succeeded_files, yearmonth_hash_dict, email_flag,
                   email_subject, emails, class, checks, uploads, requests, waits, snap,
                   retries, errormsg, ls_answers, returned, um_todo>>

\* Lines 614-620: the hashes files fetched for the data type are hashed and the
\* output appended to master.hashes.  The command of line 614 reads gk, a name
\* main binds as a local: it resolves in the module's globals and raises NameError
\* unless the program that imported the module has bound it.
UmHash ==
    /\ um_pc = "hash"
    /\ \E gk_bound \in BOOLEAN :
          IF ~gk_bound
          THEN /\ Crash("NameError: name 'gk' is not defined")
               /\ um_pc' = "raised"
               /\ UNCHANGED <<wd_master, um_todo>>
          ELSE LET data_type == Head(um_todo)
                   fetched == last_task[2] = "SUCCEEDED"
                   lines == IF ~fetched THEN <<>>
                            ELSE IF data_type = "raw"
                            THEN MasterLines([g \in RawHashesFiles |-> Digest(mirror_hashes[g])])
                            ELSE <<DatLine>>
               IN  /\ wd_master' = wd_master \o lines
                   /\ um_todo' = Tail(um_todo)
                   /\ um_pc' = IF Tail(um_todo) = <<>> THEN "put" ELSE "get"
                   /\ UNCHANGED <<pc, exit_msg, email_subject, emails>>
    /\ UNCHANGED <<archive, holding, blocked_sub, nomatch_sub, failed_sub, unzipped,
                   wd_hashes, wd_failed, elements, runs, faults,
                   task_successful_transfers,
                   scanned, files_to_upload_dict, blocked_data, ymTodo, yearmonth_dict,
                   new_hash_file, non_matching_files, failed_files, vTodo, last_task,
                   batch, succeeded_files, yearmonth_hash_dict, email_flag,
                   class, checks, uploads, requests, waits, snap,
                   retries, errormsg, ls_answers, returned>>

\* Line 621: put_master_hashes submits the upload of master.hashes and the method
\* returns its transfer result.
UmPut ==
    /\ um_pc = "put"
    /\ \E status \in TaskOutcomes :
          /\ last_task' = <<"put_master_hashes", status>>
          /\ mirror_master' = IF status = "SUCCEEDED" THEN wd_master ELSE mirror_master
    /\ um_pc' = "returned"
    /\ UNCHANGED <<mirror_hashes, mirror_failed_txt, mirror_data, mirror_failed_dir,
                   blocklist, mirror_dirs, local, runs, faults,
                   task_successful_transfers, pc, exit_msg,
                   scanned, files_to_upload_dict, blocked_data, ymTodo, yearmonth_dict,
                   new_hash_file, non_matching_files, failed_files, vTodo,
                   batch, succeeded_files, yearmonth_hash_dict, email_flag,
                   email_subject, emails, class, checks, uploads, requests, waits, snap,
                   retries, errormsg, ls_answers, returned, um_todo>>

NextMaster ==
    \/ UmClear
    \/ UmGetHashesAll
    \/ UmPoll
    \/ UmHash
    \/ UmPut

SpecMaster == InitMaster /\ [][NextMaster]_vars

\* ------------------------------------------------------------ properties
Classes == {"Blocked", "AlreadyOnArchive", "HashMismatch", "IntegrityFailed", "Eligible"}

\* The run has finished steps 4, 6 and 7 and is at step 8 or later.
Classified == pc \in {"step8", "step8move", "step9", "step10", "step11", "done"}

\* The run is over and ended at step 9 or later.
EndedPastStep8 ==
    /\ pc \in {"exit", "crash"}
    /\ exit_msg \in {"No files to upload", "sync_files_from_list failed",
                     "TypeError: list.append() takes exactly one argument (2 given)",
                     "get_master_hashes timeout", "FileNotFoundError: master.hashes"}

PastStep8 == pc \in {"step9", "step10", "step11", "done"} \/ EndedPastStep8

\* The archive as it was when the run started.
ArchiveAsAtStart ==
    /\ mirror_hashes = snap[1]
    /\ mirror_master = snap[2]
    /\ mirror_failed_txt = snap[3]
    /\ mirror_data = snap[4]

\* The lines the run has appended to a ledger that started as the archive's.
AppendedLines(ledger) ==
    IF ledger = NoFile THEN {}
    ELSE {ledger[i] : i \in {j \in DOMAIN ledger : j > Len(snap[3])}}

\* Number of ledger lines that hold the pair (hash, name).
LinesOf(ledger, hash, name) ==
    Cardinality({i \in DOMAIN ledger : InLine(hash, ledger[i]) /\ InLine(name, ledger[i])})

C7_OneLinePerPair ==
    (wd_failed # NoFile /\ wd_failed # <<>>) =>
        /\ \A hash \in LedgerHashes, name \in Names : LinesOf(wd_failed, hash, name) <= 1
        /\ \A name \in DOMAIN failed_files :
              LinesOf(wd_failed, failed_files[name][1], name) = 1

\* A call gave a pair that the ledger already held with another reason.
C7_Witness ==
    /\ wd_failed # NoFile
    /\ \E name \in DOMAIN failed_files :
          /\ LinesOf(wd_failed, failed_files[name][1], name) = 1
          /\ \E i \in DOMAIN wd_failed :
                /\ InLine(failed_files[name][1], wd_failed[i])
                /\ InLine(name, wd_failed[i])
                /\ wd_failed[i][3] # failed_files[name][2]
    /\ Len(wd_failed) >= 3

C11_BlockedQuarantined ==
    \A n \in scanned :
        /\ "Blocked" \in class[n]
           => /\ \E line \in blocklist : InLine(n, line)
              /\ class[n] = {"Blocked"}
              /\ checks[n] = <<>>
              /\ n \in blocked_sub /\ holding[n] = Absent
              /\ n \notin Keys
              /\ n \notin batch
              /\ n \notin DOMAIN failed_files
              /\ \A line \in AppendedLines(wd_failed) \cup AppendedLines(mirror_failed_txt) :
                    ~InLine(n, line)
        /\ (pc \in {"step5", "step6", "step7", "step8", "step8move", "step9", "step10",
                    "step11", "done"}
            /\ \E line \in blocklist : InLine(n, line))
           => "Blocked" \in class[n]
        /\ (\E line \in blocked_data : InLine(n, line)) => "Blocked" \in class[n]

\* A run blocked a file, submitted another one and went on to step 10.
C11_Witness ==
    /\ pc = "step10"
    /\ \E n \in scanned : class[n] = {"Blocked"} /\ n \in blocked_sub
    /\ \E m \in scanned : m \in batch /\ "Blocked" \notin class[m]

\* The reason step 7 records for a file that fails `bunzip2 -t` with code 2.
Bz2Reason == <<"reason", "Failed BZ2 integrity test">>

\* The files step 7 has recorded as failed with that reason.
Bz2Failed == {n \in DOMAIN failed_files : failed_files[n][2] = Bz2Reason}

\* The run has updated the ledger (first part of step 8).
LedgerUpdated == pc \in {"step8move", "step9", "step10", "step11", "done"} \/ EndedPastStep8

Check(n, i) == IF i <= Len(checks[n]) THEN checks[n][i] ELSE <<"none", 0>>

\* The reason step 7 records for a file that fails a size test.
EmptyReason == <<"reason", "File contains no records (empty)">>

WithString == {ym \in DOMAIN yearmonth_hash_dict : yearmonth_hash_dict[ym] # <<>>}

\* No two lines of the manifest record the same name.
UniqueNames(lines) ==
    \A i, j \in DOMAIN lines : lines[i][2] = lines[j][2] => i = j

Recorded(n, content, hashes) ==
    /\ hashes[YearMonth(n)] # NoFile
    /\ <<Sha1(content), n>> \in Range(hashes[YearMonth(n)])

BatchSubmitted == batch # {} /\ pc # "step9"

DataTypeOf(name) == "rawacf"

\* The directory the archive keeps the files of a data type in.
TypeDir(type) == IF type = "rawacf" THEN "raw" ELSE type

\* The requests of the run for a transfer of eligible files.
BatchRequests == SelectSeq(requests, LAMBDA r : r[1] = "sync_files_from_list")

ExitStatus == IF pc = "done" THEN 0 ELSE 1

\* A notification whose subject names msg has been sent in this run.
Notified(msg) == \E subject \in emails : msg \in subject

\* The manifests of the archive are as they were when the run started.
ManifestsAsAtStart == mirror_hashes = snap[1] /\ mirror_master = snap[2]

NothingToDo == {"No files to upload. Exiting.", "No files to upload"}

\* The messages of the runs that a fatal inconsistency ended.
FatalMessages == {"Hash file not found", "Mirror root dir DNE", "Holding dir DNE",
                  "Directory DNE", "Check for file existence failed",
                  "sync_files_from_list failed", "get_master_hashes timeout",
                  "get_failed timeout", "get_blocklist timeout",
                  "Error: current active transfer to mirror"}

\* C25: the exit status is 0 when main has run to its end and when the run ended
\* because there was nothing to do (no file in the holding directory, or an empty
\* upload set at step 9), and it is not 0 when a fatal inconsistency ended the run.
C25_ExitStatus ==
    /\ pc = "done" => ExitStatus = 0
    /\ (pc = "exit" /\ exit_msg \in NothingToDo) => ExitStatus = 0
    /\ (pc = "exit" /\ exit_msg \in FatalMessages) => ExitStatus # 0

\* The files the run has moved to a quarantine directory.
Quarantined(label, sub) == {n \in scanned : label \in class[n] /\ n \in sub}

\* C26: when a run has ended early, by sys.exit, a notification that names the
\* condition has been sent; and when a run is over, in whatever way, and has moved
\* files to blocked/, nomatch/ or failed/, a notification that lists the kind of
\* files has been sent.
C26_EveryAbortNotified ==
    /\ pc = "exit" => Notified(exit_msg)
    /\ pc \in {"done", "exit", "crash"} =>
          /\ Quarantined("Blocked", blocked_sub) # {} => Notified("Blocked files")
          /\ Quarantined("HashMismatch", nomatch_sub) # {} => Notified("Non matching files")
          /\ Quarantined("IntegrityFailed", failed_sub) # {} => Notified("Failed files")

C28_DifferentHashAppended ==
    [][(wd_failed # NoFile /\ wd_failed # <<>>) =>
          /\ Len(wd_failed') >= Len(wd_failed)
          /\ SubSeq(wd_failed', 1, Len(wd_failed)) = wd_failed
          /\ \A name \in DOMAIN failed_files' :
                LET hash == failed_files'[name][1]
                    line == <<hash, name, failed_files'[name][2]>>
                    held == \E i \in DOMAIN wd_failed :
                               wd_failed[i][1] = hash /\ wd_failed[i][2] = name
                    appended == {i \in DOMAIN wd_failed' :
                                    i > Len(wd_failed) /\ wd_failed'[i] = line}
                IN  Cardinality(appended) = (IF held THEN 0 ELSE 1)
          /\ \A i \in DOMAIN wd_failed' :
                i > Len(wd_failed) => wd_failed'[i][2] \in DOMAIN failed_files']_vars

\* The ledger holds a name with two hashes.
C28_Witness ==
    /\ wd_failed # NoFile
    /\ \E i, j \in DOMAIN wd_failed :
          /\ i < j
          /\ wd_failed[i][2] = wd_failed[j][2]
          /\ wd_failed[i][1] # wd_failed[j][1]
          /\ wd_failed[j][2] \in DOMAIN failed_files
          /\ wd_failed[j][1] = failed_files[wd_failed[j][2]][1]

\* filename[6:8] of a name of the universe.
Day(name) == "01"

\* C29: step 5 ends with the metadata of every hashed file of the upload set
\* recorded: the year, the month and the day of its name, yearmonth = the first 6
\* characters of the name, the hash of its content and its data type.
C29_MetadataRecorded ==
    [][(pc = "step5" /\ Present # {} /\ Present \subseteq Keys) =>
          /\ pc' = "step6"
          /\ \A f \in Present :
                files_to_upload_dict'[f] =
                    [hash |-> Sha1(holding[f]), yearmonth |-> YearMonth(f),
                     year |-> Year(f), month |-> Month(f), day |-> Day(f),
                     type |-> DataTypeOf(f)]]_vars

Indeterminate == {"TransferAPIError", "NetworkError"}

LastAnswer == ls_answers[Len(ls_answers)]

\* C31: check_for_file_existence returns False only on the answer "not found on
\* endpoint" and True only on a listing or on the answers "is a file" and "is not
\* a directory"; it never returns on an indeterminate answer; it lists the path at
\* most 5 times, and a call that has not returned after its last listing ends the
\* run with the notification "Check for file existence failed".
C31_ExistenceCheck ==
    /\ Len(ls_answers) <= maximum_retries
    /\ returned = "False" => LastAnswer = "not found on endpoint"
    /\ returned = "True" => LastAnswer \in {"listed", "is a file", "is not a directory"}
    /\ returned \in {"True", "False"} => LastAnswer \notin Indeterminate
    /\ (returned = Calling /\ ls_answers # <<>>) =>
          /\ LastAnswer \in Indeterminate
          /\ retries = Len(ls_answers)
    /\ returned \notin {Calling, "True", "False"} =>
          /\ returned = "exited"
          /\ pc = "exit"
          /\ Notified("Check for file existence failed")

\* C32: when the task list the service gave the constructor holds an ACTIVE task
\* whose destination is the mirror endpoint, the run is over with the notification
\* "Error: current active transfer to mirror" sent, every file of the holding
\* directory is where it was when the run started, and the run has submitted no
\* transfer and waited for none: the archive is as it was.
C32_ActiveTransferEndsRun ==
    (/\ runs >= 1
     /\ \E i \in DOMAIN snap[6] :
           /\ snap[6][i].status = "ACTIVE"
           /\ snap[6][i].destination_endpoint_id = mirror_uuid)
    => /\ pc = "exit"
       /\ exit_msg = "Error: current active transfer to mirror"
       /\ Notified("Error: current active transfer to mirror")
       /\ holding = snap[5]
       /\ last_task = NoTask
       /\ requests = <<>> /\ uploads = <<>> /\ waits = {} /\ batch = {}
       /\ ArchiveAsAtStart

C32_Witness ==
    /\ runs = 2
    /\ pc = "exit"
    /\ exit_msg = "Error: current active transfer to mirror"
    /\ Len(snap[6]) = 2
    /\ \E n \in Names : holding[n] # Absent
    /\ nomatch_sub # {}

\* C33: a wait of a polling loop returns True or False, True when the task it
\* awaits has ended; so the loop of update_master_hashes always has a task to
\* await and is left once that task has ended.
C33_PollingLoopEnds ==
    um_pc = "poll" => wait_for_last_task(last_task) \in {"True", "False"}

C37_LedgerAppendOnly ==
    [][/\ IF wd_failed = NoFile THEN wd_failed' = NoFile
          ELSE /\ wd_failed' # NoFile
               /\ Len(wd_failed') >= Len(wd_failed)
               /\ \A i \in DOMAIN wd_failed : wd_failed'[i] = wd_failed[i]
       /\ Len(mirror_failed_txt') >= Len(mirror_failed_txt)
       /\ \A i \in DOMAIN mirror_failed_txt :
             mirror_failed_txt'[i] = mirror_failed_txt[i]]_vars

\* Several calls have appended lines after the first one and the upload of the
\* last call succeeded.
C37_Witness ==
    /\ Len(wd_failed) >= 4
    /\ wd_failed[1] = SeedLine
    /\ mirror_failed_txt = wd_failed
    /\ last_task = <<"update_failed", "SUCCEEDED">>

=============================================================================
